---- MODULE Spec2Model ----
(***************************************************************************)
(* Model of app.py: the start-up artifact fetcher (download_if_missing,    *)
(* called once per artifact at import time), the process-wide lazy cache   *)
(* (model_bundle, enc_data, ensure_model_loaded) and the request handlers  *)
(* index (GET / and POST /) and health (GET /health).                      *)
(*                                                                         *)
(* Requests are handled by worker threads.  A POST / is split at the       *)
(* points where another thread can run: the cache check, each of the two   *)
(* joblib.load calls with its assignment, and the return of                *)
(* ensure_model_loaded followed by the rest of the handler, which touches  *)
(* only request-local data.  GET / and GET /health touch no shared state   *)
(* and are single steps.  The filesystem is changed by the program only.   *)
(***************************************************************************)
EXTENDS Integers, Sequences, FiniteSets, TLC

\* ------------------------------------------------------------------ bounds
MaxThreads == 3
MaxPosts == 3

\* --------------------------------------------------------------- constants
MODEL_PATH == "concrete_mix_model_checked.joblib"
ENC_PATH == "mix_encoders_checked.joblib"
Paths == {MODEL_PATH, ENC_PATH}

\* Python's None for the two cache variables; a loaded object is identified
\* by a positive number (the n-th object deserialized from its artifact).
None == 0

\* os.environ.get(...): the variable is unset (None), set to "", or a URL.
UrlUnset == "<None>"
UrlValues == {UrlUnset, "", "https://host/artifact"}

\* What a path holds: nothing, a file cut short by a failed write, or the
\* complete artifact.
FileStates == {"missing", "truncated", "valid"}

Threads == 1..MaxThreads

VARIABLES
    MODEL_URL,     \* environment, read once at import
    ENC_URL,
    fs,            \* fs[path]: what the path holds
    startup,       \* position of the module-level code
    dl,            \* dl[path]: how download_if_missing(., path) ended
    gets,          \* gets[path]: number of requests.get calls made for path
    model_bundle,  \* the cache
    enc_data,
    loaded,        \* loaded[path]: objects deserialized from path so far
    pc,            \* pc[t]: position of worker t inside a POST /
    posts,         \* POST / requests received
    overlap,       \* two POST / requests have been in flight at once
    response       \* the last response sent

vars == <<MODEL_URL, ENC_URL, fs, startup, dl, gets, model_bundle, enc_data,
          loaded, pc, posts, overlap, response>>

\* ---------------------------------------------------- download_if_missing

\* Variant: `url is None` in place of `not url`.
Falsy_none_only(url) == url = UrlUnset

\* `not url`
Falsy(url) == url \in {UrlUnset, ""}

\* os.path.exists(path)
Exists(path) == fs[path] # "missing"

\* How lines 30-33 can end: normally, or with requests.get raising (a
\* connection error, the 120 s timeout), raise_for_status raising on a
\* non-2xx status, open raising, or f.write raising after open has created
\* the file.
TryOutcomes ==
    {"ok", "connection_error", "timeout", "http_error", "open_error", "write_error"}

\* Variant: `except requests.RequestException`, which lets OSError through.
Caught_requests_only(outcome) ==
    outcome \in {"connection_error", "timeout", "http_error"}

\* `except Exception` catches every one of them.
Caught(outcome) == outcome \in TryOutcomes

\* The file at path after the try block: open(path, "wb") creates it, and
\* nothing removes it when the write fails.
FileAfter(outcome) ==
    CASE outcome = "ok" -> "valid"
      [] outcome = "write_error" -> "truncated"
      [] OTHER -> "missing"

download_if_missing(url, path, outcome) ==
    IF Falsy(url)
    THEN /\ dl' = [dl EXCEPT ![path] = "no_url"]
         /\ UNCHANGED <<fs, gets>>
    ELSE IF ~Exists(path)
    THEN /\ gets' = [gets EXCEPT ![path] = @ + 1]
         /\ fs' = [fs EXCEPT ![path] = FileAfter(outcome)]
         /\ dl' = [dl EXCEPT ![path] =
                      IF outcome = "ok" THEN "downloaded"
                      ELSE IF Caught(outcome) THEN "failed" ELSE "raised"]
    ELSE /\ dl' = [dl EXCEPT ![path] = "exists"]
         /\ UNCHANGED <<fs, gets>>

\* Variant: the call is repeated until the download succeeds.
AfterCall_retry(path, next) ==
    IF dl'[path] = "raised" THEN "crashed"
    ELSE IF dl'[path] = "failed" THEN startup ELSE next

\* The module-level statement after a download call: the next statement, or
\* the end of the import when the call raised.
AfterCall(path, next) == IF dl'[path] = "raised" THEN "crashed" ELSE next

\* line 43
DownloadModel ==
    /\ startup = "download_model"
    /\ \E outcome \in TryOutcomes :
          download_if_missing(MODEL_URL, MODEL_PATH, outcome)
    /\ startup' = AfterCall(MODEL_PATH, "download_enc")
    /\ UNCHANGED <<MODEL_URL, ENC_URL, model_bundle, enc_data, loaded, pc,
                   posts, overlap, response>>

\* line 44; lines 49-50 and the route registrations follow, then serving
DownloadEnc ==
    /\ startup = "download_enc"
    /\ \E outcome \in TryOutcomes :
          download_if_missing(ENC_URL, ENC_PATH, outcome)
    /\ startup' = AfterCall(ENC_PATH, "serving")
    /\ UNCHANGED <<MODEL_URL, ENC_URL, model_bundle, enc_data, loaded, pc,
                   posts, overlap, response>>

\* ---------------------------------------------------- ensure_model_loaded

\* joblib.load(path) returns an object when the path holds the complete
\* artifact and raises otherwise (FileNotFoundError for a missing file, an
\* unpickling error for a file cut short).
Loadable(path) == fs[path] = "valid"

LoadError(path) ==
    IF fs[path] = "missing" THEN "FileNotFoundError" ELSE "EOFError"

\* Variant: `and` in place of `or`.
NeedsLoad_and == model_bundle = None /\ enc_data = None

\* Variant: the test is dropped and every call loads.
NeedsLoad_always == TRUE

\* line 54
NeedsLoad == model_bundle = None \/ enc_data = None

\* A response: the route answered, the status, the body (the template
\* rendered, the fixed text, or the exception behind a 500), the template's
\* results argument, and for a POST / the input row the prediction was made
\* from and the pair ensure_model_loaded returned.
Absent == [k \in {} |-> 0]

\* Flask's answer to an exception the handler lets through.
Error500(error) ==
    [route |-> "POST /", status |-> 500, body |-> error, results |-> Absent,
     row |-> Absent, bundles |-> <<>>]

\* lines 66-68 and 54: a POST / arrives at worker t, index calls
\* ensure_model_loaded, which tests the cache.
index_POST(t) ==
    /\ startup = "serving"
    /\ pc[t] = "idle"
    /\ posts < MaxPosts
    /\ posts' = posts + 1
    /\ overlap' = (overlap \/ \E u \in Threads \ {t} : pc[u] # "idle")
    /\ pc' = [pc EXCEPT ![t] = IF NeedsLoad THEN "load_model" ELSE "return"]
    /\ UNCHANGED <<MODEL_URL, ENC_URL, fs, startup, dl, gets, model_bundle,
                   enc_data, loaded, response>>

\* line 56: model_bundle = joblib.load(MODEL_PATH)
load_model(t) ==
    /\ pc[t] = "load_model"
    /\ IF Loadable(MODEL_PATH)
       THEN /\ loaded' = [loaded EXCEPT ![MODEL_PATH] = @ + 1]
            /\ model_bundle' = loaded'[MODEL_PATH]
            /\ pc' = [pc EXCEPT ![t] = "load_enc"]
            /\ UNCHANGED response
       ELSE /\ response' = Error500(LoadError(MODEL_PATH))
            /\ pc' = [pc EXCEPT ![t] = "idle"]
            /\ UNCHANGED <<loaded, model_bundle>>
    /\ UNCHANGED <<MODEL_URL, ENC_URL, fs, startup, dl, gets, enc_data, posts,
                   overlap>>

\* Variant: the load error is swallowed (try/except around the load) and
\* ensure_model_loaded returns what the cache holds.
load_enc_swallow(t) ==
    /\ pc[t] = "load_enc"
    /\ IF Loadable(ENC_PATH)
       THEN /\ loaded' = [loaded EXCEPT ![ENC_PATH] = @ + 1]
            /\ enc_data' = loaded'[ENC_PATH]
       ELSE UNCHANGED <<loaded, enc_data>>
    /\ pc' = [pc EXCEPT ![t] = "return"]
    /\ UNCHANGED <<MODEL_URL, ENC_URL, fs, startup, dl, gets, model_bundle,
                   posts, overlap, response>>

\* line 57: enc_data = joblib.load(ENC_PATH)
load_enc(t) ==
    /\ pc[t] = "load_enc"
    /\ IF Loadable(ENC_PATH)
       THEN /\ loaded' = [loaded EXCEPT ![ENC_PATH] = @ + 1]
            /\ enc_data' = loaded'[ENC_PATH]
            /\ pc' = [pc EXCEPT ![t] = "return"]
            /\ UNCHANGED response
       ELSE /\ response' = Error500(LoadError(ENC_PATH))
            /\ pc' = [pc EXCEPT ![t] = "idle"]
            /\ UNCHANGED <<loaded, enc_data>>
    /\ UNCHANGED <<MODEL_URL, ENC_URL, fs, startup, dl, gets, model_bundle,
                   posts, overlap>>

\* ------------------------------------------------------------------ index

\* Numbers are fixed-point: a float is held as its count of hundredths
\* (30.0 is 3000, 0.38 is 38), a prediction of the regression model as its
\* count of thousandths.

FormFields ==
    {"Grade_fck", "Cement_Type", "Aggregate_Type", "Max_Aggregate_Size_mm",
     "Fine_Agg_Zone"}

\* The forms a client submits: no field, all five fields, fields that are
\* not numbers, and some fields only.
Forms ==
    { Absent,
      ("Grade_fck" :> "40" @@ "Cement_Type" :> "OPC53" @@
       "Aggregate_Type" :> "Rounded" @@ "Max_Aggregate_Size_mm" :> "12.5" @@
       "Fine_Agg_Zone" :> "III"),
      ("Grade_fck" :> "abc"),
      ("Grade_fck" :> "40" @@ "Max_Aggregate_Size_mm" :> ""),
      ("Cement_Type" :> "PPC" @@ "Max_Aggregate_Size_mm" :> "12.5") }

\* request.form.get(key, default)
form_get(form, key, default) ==
    IF key \in DOMAIN form THEN form[key] ELSE default

\* float(request.form.get(key, default)) with an int default: the default
\* as a float when the field is absent, the number the field's string
\* spells, and ValueError for a string that spells none.
Numerals == ("40" :> 4000 @@ "12.5" :> 1250)
float_raises(form, key) == key \in DOMAIN form /\ form[key] \notin DOMAIN Numerals
float_get(form, key, default) ==
    IF key \in DOMAIN form THEN Numerals[form[key]] ELSE default * 100

\* Variant: the slump is taken from the form's aggregate size.
X_input_slump(fck, cement_type, max_size, agg_type, fine_zone) ==
    "Grade_fck" :> fck @@
    "Cement_Type" :> cement_type @@
    "Max_Aggregate_Size_mm" :> max_size @@
    "Aggregate_Type" :> agg_type @@
    "Fine_Agg_Zone" :> fine_zone @@
    "Exposure_Condition" :> "Severe" @@
    "Workability_Slump_mm" :> max_size @@
    "Admixture_Type" :> "Superplasticizer" @@
    "Admixture_Dosage_%" :> 100 @@
    "Mineral_Admixture_%" :> 0 @@
    "w_c_ratio" :> 38 @@
    "Factor_X" :> 165 @@
    "Std_Deviation_S" :> 500


\* lines 82-96
X_input(fck, cement_type, max_size, agg_type, fine_zone) ==
    "Grade_fck" :> fck @@
    "Cement_Type" :> cement_type @@
    "Max_Aggregate_Size_mm" :> max_size @@
    "Aggregate_Type" :> agg_type @@
    "Fine_Agg_Zone" :> fine_zone @@
    "Exposure_Condition" :> "Severe" @@
    "Workability_Slump_mm" :> 7500 @@
    "Admixture_Type" :> "Superplasticizer" @@
    "Admixture_Dosage_%" :> 100 @@
    "Mineral_Admixture_%" :> 0 @@
    "w_c_ratio" :> 38 @@
    "Factor_X" :> 165 @@
    "Std_Deviation_S" :> 500

\* lines 98-104: the encoders, the scaler and the model are opaque objects
\* of the artifacts.  They either raise on the row (a label the encoder was
\* not fitted on) or give one row of four numbers.
Predictions ==
    { <<"ValueError">>,
      <<383454, 191216, 650005, 1120995>>,
      <<402118, 186349, 702500, 1093301>> }

\* round(y, 2): thousandths to hundredths, halves to the even neighbour
round2(y) ==
    LET q == y \div 10
        r == y % 10
    IN  IF r < 5 THEN q
        ELSE IF r > 5 THEN q + 1
        ELSE IF q % 2 = 0 THEN q ELSE q + 1

\* lines 105-110
results_of(y_pred) ==
    "Cementitious_Content_kgm3" :> round2(y_pred[1]) @@
    "Water_Content_kgm3" :> round2(y_pred[2]) @@
    "Fine_Agg_kgm3" :> round2(y_pred[3]) @@
    "Coarse_Agg_kgm3" :> round2(y_pred[4])

\* lines 69-112 on the pair ensure_model_loaded returned
handle_post(bundles, form, y_pred) ==
    LET fck == float_get(form, "Grade_fck", 30)
        cement_type == form_get(form, "Cement_Type", "OPC43")
        agg_type == form_get(form, "Aggregate_Type", "Crushed")
        max_size == float_get(form, "Max_Aggregate_Size_mm", 20)
        fine_zone == form_get(form, "Fine_Agg_Zone", "II")
    IN  IF bundles[1] = None \/ bundles[2] = None THEN Error500("TypeError")
        ELSE IF float_raises(form, "Grade_fck") THEN Error500("ValueError")
        ELSE IF float_raises(form, "Max_Aggregate_Size_mm")
        THEN Error500("ValueError")
        ELSE IF Len(y_pred) # 4 THEN Error500("ValueError")
        ELSE [route |-> "POST /", status |-> 200, body |-> "index.html",
              results |-> results_of(y_pred),
              row |-> X_input(fck, cement_type, max_size, agg_type, fine_zone),
              bundles |-> bundles]

\* Variant: the handler drops the cached objects once it has answered, to
\* give the memory back.
index_POST_return_release(t) ==
    /\ pc[t] = "return"
    /\ \E form \in Forms, y_pred \in Predictions :
          response' = handle_post(<<model_bundle, enc_data>>, form, y_pred)
    /\ pc' = [pc EXCEPT ![t] = "idle"]
    /\ model_bundle' = None
    /\ enc_data' = None
    /\ UNCHANGED <<MODEL_URL, ENC_URL, fs, startup, dl, gets, loaded, posts,
                   overlap>>


\* line 59 and lines 69-112: ensure_model_loaded returns the two globals as
\* they are now, and the handler finishes on them.
index_POST_return(t) ==
    /\ pc[t] = "return"
    /\ \E form \in Forms, y_pred \in Predictions :
          response' = handle_post(<<model_bundle, enc_data>>, form, y_pred)
    /\ pc' = [pc EXCEPT ![t] = "idle"]
    /\ UNCHANGED <<MODEL_URL, ENC_URL, fs, startup, dl, gets, model_bundle,
                   enc_data, loaded, posts, overlap>>

\* lines 66 and 114
index_GET(t) ==
    /\ startup = "serving"
    /\ pc[t] = "idle"
    /\ response' = [route |-> "GET /", status |-> 200, body |-> "index.html",
                    results |-> Absent, row |-> Absent, bundles |-> <<>>]
    /\ UNCHANGED <<MODEL_URL, ENC_URL, fs, startup, dl, gets, model_bundle,
                   enc_data, loaded, pc, posts, overlap>>

\* ----------------------------------------------------------------- health

\* Variant: a readiness probe that answers 503 until the cache is populated.
health_ready(t) ==
    /\ startup = "serving"
    /\ pc[t] = "idle"
    /\ response' = [route |-> "GET /health",
                    status |-> IF NeedsLoad THEN 503 ELSE 200,
                    body |-> IF NeedsLoad THEN "loading" ELSE "ok",
                    results |-> Absent, row |-> Absent, bundles |-> <<>>]
    /\ UNCHANGED <<MODEL_URL, ENC_URL, fs, startup, dl, gets, model_bundle,
                   enc_data, loaded, pc, posts, overlap>>


\* lines 119-121
health(t) ==
    /\ startup = "serving"
    /\ pc[t] = "idle"
    /\ response' = [route |-> "GET /health", status |-> 200, body |-> "ok",
                    results |-> Absent, row |-> Absent, bundles |-> <<>>]
    /\ UNCHANGED <<MODEL_URL, ENC_URL, fs, startup, dl, gets, model_bundle,
                   enc_data, loaded, pc, posts, overlap>>

\* ------------------------------------------------------------------- Init
NoResponse ==
    [route |-> "", status |-> 0, body |-> "", results |-> Absent,
     row |-> Absent, bundles |-> <<>>]

Init ==
    /\ MODEL_URL \in UrlValues
    /\ ENC_URL \in UrlValues
    /\ fs \in [Paths -> FileStates]
    /\ startup = "download_model"
    /\ dl = [p \in Paths |-> "not_called"]
    /\ gets = [p \in Paths |-> 0]
    /\ model_bundle = None
    /\ enc_data = None
    /\ loaded = [p \in Paths |-> 0]
    /\ pc = [t \in Threads |-> "idle"]
    /\ posts = 0
    /\ overlap = FALSE
    /\ response = NoResponse

Next ==
    \/ DownloadModel
    \/ DownloadEnc
    \/ \E t \in Threads : index_POST(t)
    \/ \E t \in Threads : load_model(t)
    \/ \E t \in Threads : load_enc(t)
    \/ \E t \in Threads : index_POST_return(t)
    \/ \E t \in Threads : index_GET(t)
    \/ \E t \in Threads : health(t)

Spec == Init /\ [][Next]_vars
\* ================================================================= claims

\* The URL download_if_missing is called with for a path (lines 43-44).
UrlOf(path) == IF path = MODEL_PATH THEN MODEL_URL ELSE ENC_URL

Configured(path) == UrlOf(path) \notin {UrlUnset, ""}

Idle == \A t \in Threads : pc[t] = "idle"

\* C1: a step makes a requests.get call for a path, or changes what the path
\* holds, only when the path's URL is configured and the path holds nothing,
\* and then it makes exactly one call; the call of download_if_missing for a
\* path with a configured URL and no file makes that request, and for a path
\* whose URL is unset or empty, or whose file exists, it makes none and
\* leaves the path as it was.
C1_DownloadOnlyWhenConfiguredAndMissing ==
    [][\A p \in Paths :
          /\ (gets'[p] # gets[p] \/ fs'[p] # fs[p]) =>
                (Configured(p) /\ fs[p] = "missing" /\ gets'[p] = gets[p] + 1)
          /\ (dl[p] = "not_called" /\ dl'[p] # "not_called") =>
                IF Configured(p) /\ fs[p] = "missing"
                THEN gets'[p] = gets[p] + 1
                ELSE gets'[p] = gets[p] /\ fs'[p] = fs[p]]_vars

\* C1 witness: the model artifact was fetched and written, the encoders'
\* URL is empty and their path, which holds nothing, saw no request.
C1_Witness ==
    /\ startup = "serving"
    /\ gets[MODEL_PATH] = 1 /\ fs[MODEL_PATH] = "valid"
    /\ dl[MODEL_PATH] = "downloaded"
    /\ ENC_URL = "" /\ gets[ENC_PATH] = 0 /\ fs[ENC_PATH] = "missing"

\* C2: no download failure escapes download_if_missing: the import never
\* ends in an exception, the statement after a call is always reachable,
\* once serving the encoders' call has been made (with its request when the
\* URL is configured and the file was absent) whatever the model's call did,
\* and every idle worker can answer a request.
C2_DownloadFailuresAreCaught ==
    /\ startup \in {"download_model", "download_enc", "serving"}
    /\ \A p \in Paths : dl[p] # "raised"
    /\ dl[MODEL_PATH] = "failed" => startup \in {"download_enc", "serving"}
    /\ startup = "download_model" => ENABLED DownloadModel
    /\ startup = "download_enc" => ENABLED DownloadEnc
    /\ startup = "serving" =>
          /\ dl[ENC_PATH] # "not_called"
          /\ (Configured(ENC_PATH) /\ dl[ENC_PATH] # "exists") =>
                gets[ENC_PATH] = 1
          /\ \A t \in Threads : pc[t] = "idle" => ENABLED index_GET(t)

\* C2 witness: the model's download failed in the write, the encoders'
\* download was still made, and a request has been answered.
C2_Witness ==
    /\ dl[MODEL_PATH] = "failed" /\ fs[MODEL_PATH] = "truncated"
    /\ gets[ENC_PATH] = 1 /\ dl[ENC_PATH] = "downloaded"
    /\ response.status = 200

\* The bodies of the 500 responses that come from inside ensure_model_loaded.
LoadErrors == {"FileNotFoundError", "EOFError"}

\* C3: while an artifact file is missing, no POST / gets past
\* ensure_model_loaded: no worker holds a returned pair, the answer to every
\* POST / is the 500 of a load error with no results, and the steps of the
\* handlers make no request and leave the files as they are.
C3_MissingArtifactFailsEveryPost ==
    /\ []((startup = "serving" /\ \E p \in Paths : fs[p] = "missing") =>
            /\ \A t \in Threads : pc[t] # "return"
            /\ response.route = "POST /" =>
                  /\ response.status = 500
                  /\ response.body \in LoadErrors
                  /\ response.results = Absent)
    /\ [][(startup = "serving" /\ \E p \in Paths : fs[p] = "missing") =>
             (gets' = gets /\ fs' = fs /\ dl' = dl)]_vars

\* C3 witness: the encoders' file is missing, the model's is not, and three
\* POST / in a row have ended in the 500 of the missing file.
C3_Witness ==
    /\ fs[ENC_PATH] = "missing" /\ fs[MODEL_PATH] = "valid"
    /\ posts = 3 /\ Idle /\ ~overlap
    /\ response.route = "POST /" /\ response.status = 500
    /\ response.body = "FileNotFoundError"

\* C6: at most one request is ever made per artifact; both calls are over
\* before any request is handled; the model's call comes before the
\* encoders'; and once serving, no step makes a download call or a request.
C6_OneDownloadAttemptAtStartup ==
    /\ [](/\ \A p \in Paths : gets[p] <= 1
          /\ startup # "serving" =>
                (posts = 0 /\ Idle /\ response = NoResponse)
          /\ dl[ENC_PATH] # "not_called" => dl[MODEL_PATH] # "not_called"
          /\ startup = "download_enc" => dl[ENC_PATH] = "not_called")
    /\ [][startup = "serving" => (gets' = gets /\ dl' = dl)]_vars

\* C6 witness: both downloads failed at start-up, and three POST / later
\* each artifact has still seen one request only.
C6_Witness ==
    /\ \A p \in Paths : dl[p] = "failed" /\ gets[p] = 1 /\ fs[p] = "missing"
    /\ posts = 3 /\ Idle

\* C8 (as claimed): after a download that failed, the path holds nothing.
C8_FailedDownloadLeavesNoFile ==
    \A p \in Paths : dl[p] = "failed" => fs[p] = "missing"
\* C4 (as claimed): under sequential request handling each artifact is
\* deserialized at most once in the life of the process.
C4_LoadedAtMostOnce ==
    ~overlap => \A p \in Paths : loaded[p] <= 1

\* C4 (amended): the cache holds None until the first POST /, whatever GET /
\* and GET /health requests are answered, and those leave it as it is; under
\* sequential request handling the first POST / that finds both artifacts
\* loadable caches object 1 of each, every later POST / is answered from
\* that same pair, the encoders are deserialized at most once, and the model
\* is deserialized more than once only when the encoders cannot be loaded.
C4_CachePopulatedOnFirstUse ==
    /\ [](posts = 0 =>
            (model_bundle = None /\ enc_data = None /\
             \A p \in Paths : loaded[p] = 0))
    /\ [][(response' # response /\
           response'.route \in {"GET /", "GET /health"}) =>
             UNCHANGED <<model_bundle, enc_data, loaded>>]_vars
    /\ [](~overlap =>
            /\ loaded[ENC_PATH] <= 1
            /\ loaded[MODEL_PATH] > 1 => ~Loadable(ENC_PATH)
            /\ (posts >= 1 /\ Idle /\ \A p \in Paths : Loadable(p)) =>
                  (model_bundle = 1 /\ enc_data = 1 /\
                   \A p \in Paths : loaded[p] = 1)
            /\ (response.route = "POST /" /\ response.status = 200) =>
                  response.bundles = <<1, 1>>)
    /\ [][(~overlap' /\ model_bundle # None /\ enc_data # None) =>
             UNCHANGED <<model_bundle, enc_data, loaded>>]_vars

\* C4 witness: three POST / one after the other, answered from one load of
\* each artifact.
C4_Witness ==
    /\ ~overlap /\ posts = 3 /\ Idle
    /\ model_bundle = 1 /\ enc_data = 1
    /\ \A p \in Paths : loaded[p] = 1
    /\ response.route = "POST /" /\ response.status = 200

\* C5: an artifact is deserialized a second time, with both artifacts
\* loadable, only when two POST / have been in flight together; and that
\* state is reached (the witness).
C5_DoubleLoadOnlyByRace ==
    /\ loaded[ENC_PATH] > 1 => overlap
    /\ (loaded[MODEL_PATH] > 1 /\ Loadable(ENC_PATH)) => overlap

\* C5 witness: two POST / that both found the cache empty have each
\* deserialized both artifacts.
C5_Witness ==
    /\ posts = 2 /\ overlap
    /\ loaded[MODEL_PATH] = 2 /\ loaded[ENC_PATH] = 2

\* C7: every answer of GET /health is the body "ok" with status 200; the
\* step that gives it leaves the cache as it is; and once serving, an idle
\* worker can always give it, whatever the downloads did, whatever files
\* exist and whatever the cache holds.
C7_HealthAlwaysOk ==
    /\ [](response.route = "GET /health" =>
            (response.status = 200 /\ response.body = "ok"))
    /\ [](startup = "serving" =>
            \A t \in Threads : pc[t] = "idle" => ENABLED health(t))
    /\ [][(response' # response /\ response'.route = "GET /health") =>
             UNCHANGED <<model_bundle, enc_data, loaded>>]_vars

\* C7 witness: GET /health answered with a failed download, a missing file
\* and a half-populated cache.
C7_Witness ==
    /\ response.route = "GET /health" /\ response.status = 200
    /\ dl[ENC_PATH] = "failed" /\ fs[ENC_PATH] = "missing"
    /\ model_bundle # None /\ enc_data = None

ResultKeys ==
    {"Cementitious_Content_kgm3", "Water_Content_kgm3", "Fine_Agg_kgm3",
     "Coarse_Agg_kgm3"}

\* The row of a form with no field.
DefaultRow == X_input(3000, "OPC43", 2000, "Crushed", "II")

\* C9: every POST / answered with the page has a results record of exactly
\* the four predictions, each a number, made from a row of thirteen fields,
\* five of them the form's and the other eight the values they have for
\* every other request; with the cache populated, the only way for the
\* handler to fail is a ValueError on the fields.
C9_FourPredictionsFromFixedRow ==
    /\ (response.route = "POST /" /\ response.status = 200) =>
          /\ response.body = "index.html"
          /\ DOMAIN response.results = ResultKeys
          /\ \A k \in ResultKeys : response.results[k] \in Nat
          /\ Cardinality(DOMAIN response.row) = 13
          /\ FormFields \subseteq DOMAIN response.row
          /\ \A k \in DOMAIN response.row \ FormFields :
                response.row[k] = DefaultRow[k]
          /\ response.bundles[1] # None /\ response.bundles[2] # None
    /\ (response.route = "POST /" /\ response.status = 500) =>
          response.body \in LoadErrors \cup {"ValueError"}

\* C9 witness: a POST / with all five fields filled in, answered with
\* predictions rounded to two places (650005 thousandths to 65000
\* hundredths).
C9_Witness ==
    /\ response.route = "POST /" /\ response.status = 200
    /\ response.row["Grade_fck"] = 4000
    /\ response.row["Cement_Type"] = "OPC53"
    /\ response.row["Max_Aggregate_Size_mm"] = 1250
    /\ response.row["Aggregate_Type"] = "Rounded"
    /\ response.row["Fine_Agg_Zone"] = "III"
    /\ response.results["Fine_Agg_kgm3"] = 65000
    /\ response.results["Coarse_Agg_kgm3"] = 112100

\* C10: ensure_model_loaded never returns a pair with a None component,
\* whatever the interleaving; when the model can be loaded and the encoders
\* cannot, a call that got past the model's load leaves model_bundle set and
\* enc_data None; and a call that finds either variable None enters the load
\* branch, where it loads the model again.
C10_NeverReturnsNone ==
    /\ [](/\ \A t \in Threads :
                pc[t] = "return" => (model_bundle # None /\ enc_data # None)
          /\ response.body # "TypeError"
          /\ (loaded[MODEL_PATH] > 0 /\ ~Loadable(ENC_PATH)) =>
                (model_bundle = loaded[MODEL_PATH] /\ enc_data = None))
    /\ [][\A t \in Threads :
             (pc[t] = "idle" /\ pc'[t] # "idle" /\
              (model_bundle = None \/ enc_data = None)) =>
                pc'[t] = "load_model"]_vars
    /\ [][\A t \in Threads :
             (pc[t] = "load_model" /\ pc'[t] = "load_enc") =>
                (loaded'[MODEL_PATH] = loaded[MODEL_PATH] + 1 /\
                 model_bundle' = loaded'[MODEL_PATH])]_vars

\* C10 witness: the encoders failed to load, and the next POST /, handled
\* after the first was over, loaded the model a second time.
C10_Witness ==
    /\ ~overlap /\ posts = 2
    /\ loaded[MODEL_PATH] = 2 /\ model_bundle = 2 /\ enc_data = None
    /\ response.status = 500 /\ response.body \in LoadErrors
====
